---- MODULE Spec2Model ----
(***************************************************************************)
(* A model of fetch_charges.py: the Baserow row listing, the docket fetch  *)
(* of every listed case number, the two extraction heuristics and the      *)
(* write-back of the extracted fields.                                     *)
(*                                                                         *)
(* Text is modelled as Python str values: a tuple of one-character         *)
(* strings.  None is a value of its own.                                   *)
(***************************************************************************)
EXTENDS Integers, Sequences, FiniteSets, TLC

VARIABLES
    pc,          \* position of process_cases: "list", "row", "get", "sleep", "done", "aborted"
    cause,       \* the exception that ended the run, "" while none did
    buffer,      \* rows of the current listing page not yet yielded by list_rows
    hasNext,     \* data.get("next") of the current listing page
    pagesFetched,\* listing pages requested so far
    nextId,      \* the store's next row id (ids are unique per row)
    cur,         \* the (row_id, case_number) of the iteration in progress
    updated,     \* counter of process_cases
    skipped,     \* counter of process_cases
    failed,      \* counter of process_cases
    clock,       \* time units slept so far (time.sleep)
    requests,    \* docket GETs sent, in order: [row, case, verify, at, error, resp]
    patches,     \* PATCH requests sent to the store, in order: [row, fields, ok]
    files,       \* files written to the working directory, in order: [row, name, body]
    listed,      \* rows yielded by list_rows so far: [row, case]
    counted,     \* per listed row, the counter its iteration incremented
    doc,         \* extractor harness: the charge container under test
    charge,      \* extractor harness: the value extract_charge_with_priority returned
    stage        \* extractor harness: "input", "extracted" or "off"

vars == <<pc, cause, buffer, hasNext, pagesFetched, nextId, cur, updated, skipped,
          failed, clock, requests, patches, files, listed, counted, doc, charge, stage>>

runVars == <<pc, cause, buffer, hasNext, pagesFetched, nextId, cur, updated, skipped,
             failed, clock, requests, patches, files, listed, counted>>

harnessVars == <<doc, charge, stage>>

-----------------------------------------------------------------------------
(* Python values *)

None == <<"None">>

Truthy(v) == v # None /\ v # <<>>

UpperAlphabet == <<"A","B","C","D","E","F","G","H","I","J","K","L","M",
                   "N","O","P","Q","R","S","T","U","V","W","X","Y","Z">>

LowerAlphabet == <<"a","b","c","d","e","f","g","h","i","j","k","l","m",
                   "n","o","p","q","r","s","t","u","v","w","x","y","z">>

Whitespace == {" ", "\n", "\t"}

UpperChar(c) ==
    IF \E i \in DOMAIN LowerAlphabet : LowerAlphabet[i] = c
    THEN UpperAlphabet[CHOOSE i \in DOMAIN LowerAlphabet : LowerAlphabet[i] = c]
    ELSE c

LowerChar(c) ==
    IF \E i \in DOMAIN UpperAlphabet : UpperAlphabet[i] = c
    THEN LowerAlphabet[CHOOSE i \in DOMAIN UpperAlphabet : UpperAlphabet[i] = c]
    ELSE c

\* str.upper()
Upper(s) == [i \in DOMAIN s |-> UpperChar(s[i])]

\* str.lower()
Lower(s) == [i \in DOMAIN s |-> LowerChar(s[i])]

\* needle in hay
Contains(hay, needle) ==
    \E k \in 0..(Len(hay) - Len(needle)) :
        \A j \in 1..Len(needle) : hay[k + j] = needle[j]

RECURSIVE LStrip(_)
LStrip(s) == IF s # <<>> /\ Head(s) \in Whitespace THEN LStrip(Tail(s)) ELSE s

RECURSIVE RStrip(_)
RStrip(s) ==
    IF s # <<>> /\ s[Len(s)] \in Whitespace THEN RStrip(SubSeq(s, 1, Len(s) - 1)) ELSE s

\* str.strip(), and the strip=True of get_text
Strip(s) == RStrip(LStrip(s))

-----------------------------------------------------------------------------
(* The parsed document.  A section is the sequence of its div elements in   *)
(* document order: RowTag opens a div of class "row g-0", Cell(t) is a div  *)
(* with text t inside the row opened last.                                  *)

NoSection == <<"NoSection">>

RowTag == <<"row", <<>>>>

Cell(t) == <<"div", t>>

\* find_all("div", class_="row g-0") and, per row, find_all("div"): the divs
\* of the rows of a section, one sequence of texts per row; a div before the
\* first row belongs to none
RECURSIVE CollectRows(_, _)
CollectRows(section, rows) ==
    IF section = <<>> THEN rows
    ELSE LET tok == Head(section)
         IN IF tok = RowTag THEN CollectRows(Tail(section), Append(rows, <<>>))
            ELSE IF rows = <<>> THEN CollectRows(Tail(section), rows)
            ELSE CollectRows(Tail(section),
                             [rows EXCEPT ![Len(rows)] = Append(@, tok[2])])

RowsOf(section) == CollectRows(section, <<>>)

Description == <<"D","e","s","c","r","i","p","t","i","o","n">>

MURDER == <<"M","U","R","D","E","R">>

\* "MURDER" in description.upper(), without the upper()
IsMurderCaseSensitive(description) == Contains(description, MURDER)

\* "MURDER" in description.upper()
IsMurder(description) == Contains(Upper(description), MURDER)

\* first_charge kept only while it is None
KeepFirstIsNone(first_charge, description) ==
    IF first_charge = None THEN description ELSE first_charge

\* if not first_charge: first_charge = description
KeepFirst(first_charge, description) ==
    IF ~Truthy(first_charge) THEN description ELSE first_charge

\* the inner loop over the divs of one row; returned = the function returned
RECURSIVE ScanDivs(_, _, _)
ScanDivs(divs, i, first_charge) ==
    IF i > Len(divs) THEN [returned |-> FALSE, value |-> first_charge]
    ELSE LET text == Strip(divs[i]) IN
         IF ~Truthy(text) THEN ScanDivs(divs, i + 1, first_charge)
         ELSE IF Contains(text, Description) /\ i + 1 <= Len(divs)
         THEN LET description == Strip(divs[i + 1])
                  first == KeepFirst(first_charge, description)
              IN IF IsMurder(description)
                 THEN [returned |-> TRUE, value |-> description]
                 ELSE ScanDivs(divs, i + 1, first)
         ELSE ScanDivs(divs, i + 1, first_charge)

\* the outer loop over the rows
RECURSIVE ScanRows(_, _)
ScanRows(rows, first_charge) ==
    IF rows = <<>> THEN first_charge
    ELSE LET r == ScanDivs(Head(rows), 1, first_charge)
         IN IF r.returned THEN r.value ELSE ScanRows(Tail(rows), r.value)

extract_charge_with_priority(charges_section) ==
    IF charges_section = NoSection THEN None
    ELSE ScanRows(RowsOf(charges_section), None)

-----------------------------------------------------------------------------
(* extract_today_event *)

Digits == <<"0","1","2","3","4","5","6","7","8","9">>

\* the decimal digits of a natural number, without leading zeros (%-m, %-d, %Y)
RECURSIVE IntStr(_)
IntStr(n) == IF n < 10 THEN <<Digits[n + 1]>> ELSE IntStr(n \div 10) \o <<Digits[(n % 10) + 1]>>

\* s.replace("/0", "/")
RECURSIVE ReplaceSlashZero(_)
ReplaceSlashZero(s) ==
    IF Len(s) < 2 THEN s
    ELSE IF s[1] = "/" /\ s[2] = "0" THEN <<"/">> \o ReplaceSlashZero(SubSeq(s, 3, Len(s)))
    ELSE <<s[1]>> \o ReplaceSlashZero(Tail(s))

\* datetime.now() of the run, as <<year, month, day>>
Today == <<2025, 9, 5>>

today_str ==
    ReplaceSlashZero(IntStr(Today[2]) \o <<"/">> \o IntStr(Today[3]) \o <<"/">> \o IntStr(Today[1]))

RECURSIVE ScanCalendar(_)
ScanCalendar(rows) ==
    IF rows = <<>> THEN None
    ELSE LET cols == Head(rows)
         IN IF Len(cols) >= 6 /\ Strip(cols[2]) = today_str
            THEN Strip(cols[6])
            ELSE ScanCalendar(Tail(rows))

extract_today_event(calendar_section) ==
    IF calendar_section = NoSection THEN None
    ELSE ScanCalendar(RowsOf(calendar_section))

-----------------------------------------------------------------------------
(* page_has_error_message *)

known_fail_phrases == <<
    <<"s","e","r","v","e","r"," ","i","s"," ","b","u","s","y">>,
    <<"c","o","u","l","d"," ","n","o","t"," ","b","e"," ","f","o","u","n","d">>,
    <<"e","r","r","o","r"," ","h","a","s"," ","o","c","c","u","r","r","e","d">>,
    <<"u","n","a","v","a","i","l","a","b","l","e">>,
    <<"t","e","m","p","o","r","a","r","i","l","y"," ","u","n","a","v","a","i","l","a","b","l","e">>,
    <<"t","r","y"," ","a","g","a","i","n"," ","l","a","t","e","r">> >>

\* the texts of the divs of a section, in document order
SectionTexts(section) ==
    IF section = NoSection THEN <<>>
    ELSE LET cells == SelectSeq(section, LAMBDA tok : tok # RowTag)
         IN [i \in DOMAIN cells |-> cells[i][2]]

\* the text nodes of a page, in document order
TextNodes(page) ==
    <<page.banner>> \o SectionTexts(page.charges) \o SectionTexts(page.calendar)

\* soup.get_text(separator="\n", strip=True): the stripped, non-empty text
\* nodes joined by the separator
RECURSIVE JoinStripped(_)
JoinStripped(nodes) ==
    IF nodes = <<>> THEN <<>>
    ELSE LET t    == Strip(Head(nodes))
             rest == JoinStripped(Tail(nodes))
         IN IF t = <<>> THEN rest
            ELSE IF rest = <<>> THEN t
            ELSE t \o <<"\n">> \o rest

\* text = soup.get_text(...) without the .lower()
PageTextCaseSensitive(page) == JoinStripped(TextNodes(page))

\* text = soup.get_text(separator="\n", strip=True).lower()
PageText(page) == Lower(JoinStripped(TextNodes(page)))

page_has_error_message(page) ==
    \E k \in DOMAIN known_fail_phrases : Contains(PageText(page), known_fail_phrases[k])

-----------------------------------------------------------------------------
(* The extractor on its own: every charge container up to MaxDocLen divs.   *)

MaxDocLen == 5

CellTexts == { Description,
               <<" ">>,
               <<"A","s","s","a","u","l","t">>,
               <<"M","u","r","d","e","r"," ","1","s","t"," ","D","e","g","r","e","e">> }

Tokens == {RowTag} \cup {Cell(t) : t \in CellTexts}

Sections == UNION {[1..n -> Tokens] : n \in 0..MaxDocLen}

Pending == <<"Pending">>

RunOff ==
    /\ pc = "off" /\ cause = "" /\ buffer = <<>> /\ hasNext = FALSE
    /\ pagesFetched = 0 /\ nextId = 1 /\ cur = None
    /\ updated = 0 /\ skipped = 0 /\ failed = 0 /\ clock = 0
    /\ requests = <<>> /\ patches = <<>> /\ files = <<>>
    /\ listed = <<>> /\ counted = <<>>

InitCharge ==
    /\ RunOff
    /\ doc \in Sections \cup {NoSection}
    /\ charge = Pending
    /\ stage = "input"

ExtractCharge ==
    /\ stage = "input"
    /\ charge' = extract_charge_with_priority(doc)
    /\ stage' = "extracted"
    /\ UNCHANGED <<doc, runVars>>

NextCharge == ExtractCharge

SpecCharge == InitCharge /\ [][NextCharge]_vars

-----------------------------------------------------------------------------
(* The inputs of a run: the rows the store lists, the answers of the court  *)
(* site and of the store.                                                   *)

MaxRows == 2

MaxPages == 2

\* status codes
HTTP_OK == 200

\* time.sleep(4)
SLEEP_SECONDS == 4

\* the "Case #" cell of a listed row: missing, blank, padded, with a path separator
CaseNumbers == { None,
                 <<" ">>,
                 <<" ","C","R","1"," ">>,
                 <<"C","R","/","1">> }

Docket == <<"D","o","c","k","e","t">>

Assault == <<"A","s","s","a","u","l","t">>

Murder1st == <<"M","u","r","d","e","r"," ","1","s","t"," ","D","e","g","r","e","e">>

Hearing == <<"H","e","a","r","i","n","g"," ","a","t"," ","9","a","m">>

BusyBanner == <<"T","h","e"," ","s","e","r","v","e","r"," ","i","s"," ","b","u","s","y",",",
                " ","p","l","e","a","s","e"," ","t","r","y"," ","a","g","a","i","n"," ",
                "l","a","t","e","r">>

UnavailableWitness == <<"U","n","a","v","a","i","l","a","b","l","e"," ","w","i","t","n","e","s","s">>

CalendarToday == << RowTag, Cell(<<"x">>), Cell(<<"9","/","5","/","2","0","2","5">>), Cell(<<"y">>),
                    Cell(<<"z">>), Cell(<<"w">>), Cell(Hearing) >>

CalendarOtherDay == << RowTag, Cell(<<"x">>), Cell(<<"9","/","6","/","2","0","2","5">>), Cell(<<"y">>),
                       Cell(<<"z">>), Cell(<<"w">>), Cell(Hearing) >>

\* the bodies (response.text) the court site answers with
Bodies == {"both", "murder", "event", "nothing", "busy", "witness"}

\* BeautifulSoup(response.text, "html.parser")
BeautifulSoup(text) ==
    CASE text = "both" ->
            [banner |-> Docket,
             charges |-> <<RowTag, Cell(Description), Cell(Assault)>>,
             calendar |-> CalendarToday]
      [] text = "murder" ->
            [banner |-> Docket,
             charges |-> <<RowTag, Cell(Description), Cell(Assault),
                           RowTag, Cell(Description), Cell(Murder1st)>>,
             calendar |-> NoSection]
      [] text = "event" ->
            [banner |-> Docket, charges |-> NoSection, calendar |-> CalendarToday]
      [] text = "nothing" ->
            [banner |-> Docket,
             charges |-> <<RowTag, Cell(Description), Cell(<<" ">>)>>,
             calendar |-> CalendarOtherDay]
      [] text = "busy" ->
            [banner |-> BusyBanner, charges |-> NoSection, calendar |-> NoSection]
      [] text = "witness" ->
            [banner |-> Docket,
             charges |-> <<RowTag, Cell(Description), Cell(UnavailableWitness)>>,
             calendar |-> NoSection]

\* what http.get returns
Responses == [status : {HTTP_OK}, text : Bodies]
             \cup {[status |-> 503, text |-> "busy"], [status |-> 404, text |-> "both"]}

\* page_has_error_message(soup, case_number) of every body, evaluated once
HasErrorMessage == [text \in Bodies |-> page_has_error_message(BeautifulSoup(text))]

\* the request raised: there is no response
NoResponse == [status |-> 0, text |-> ""]

\* what http.get and session.patch raise (subclasses of requests.RequestException)
TransportErrors == {"SSLError", "ConnectionError"}

\* the ways a PATCH ends: a 2xx answer, raise_for_status raising, the transport raising
PatchOutcomes == {"ok", "HTTPError", "ConnectionError"}

-----------------------------------------------------------------------------
(* list_rows *)

Init ==
    /\ pc = "list" /\ cause = "" /\ buffer = <<>> /\ hasNext = TRUE
    /\ pagesFetched = 0 /\ nextId = 1 /\ cur = None
    /\ updated = 0 /\ skipped = 0 /\ failed = 0 /\ clock = 0
    /\ requests = <<>> /\ patches = <<>> /\ files = <<>>
    /\ listed = <<>> /\ counted = <<>>
    /\ doc = NoSection /\ charge = None /\ stage = "off"

\* session.get of one listing page answers: its rows go to the generator
ListPage ==
    /\ pc = "list"
    /\ \E n \in 0..(MaxRows - (nextId - 1)), more \in BOOLEAN :
         /\ more => pagesFetched + 1 < MaxPages
         /\ \E cases \in [1..n -> CaseNumbers] :
              buffer' = [i \in 1..n |-> [row |-> nextId + i - 1, case |-> cases[i]]]
         /\ nextId' = nextId + n
         /\ hasNext' = more
    /\ pagesFetched' = pagesFetched + 1
    /\ pc' = "row"
    /\ UNCHANGED <<cause, cur, updated, skipped, failed, clock, requests, patches, files,
                   listed, counted, harnessVars>>

\* session.get or raise_for_status of a listing page raises: nothing catches it
ListPageFails ==
    /\ pc = "list"
    /\ pagesFetched' = pagesFetched + 1
    /\ pc' = "aborted"
    /\ cause' = "RequestException in list_rows"
    /\ UNCHANGED <<buffer, hasNext, nextId, cur, updated, skipped, failed, clock, requests,
                   patches, files, listed, counted, harnessVars>>

\* the page's rows are all yielded and the listing names a next page
NextPage ==
    /\ pc = "row" /\ buffer = <<>> /\ hasNext
    /\ pc' = "list"
    /\ UNCHANGED <<cause, buffer, hasNext, pagesFetched, nextId, cur, updated, skipped, failed,
                   clock, requests, patches, files, listed, counted, harnessVars>>

-----------------------------------------------------------------------------
(* process_cases *)

\* str(case_number or "").strip()
CleanCaseNumber(case_number) == Strip(IF Truthy(case_number) THEN case_number ELSE <<>>)

\* the row has no case number: continue
SkipRowWithoutCase ==
    /\ pc = "row" /\ buffer # <<>>
    /\ ~Truthy(CleanCaseNumber(Head(buffer).case))
    /\ buffer' = Tail(buffer)
    /\ listed' = Append(listed, Head(buffer))
    /\ counted' = Append(counted, "none")
    /\ UNCHANGED <<pc, cause, hasNext, pagesFetched, nextId, cur, updated, skipped, failed,
                   clock, requests, patches, files, harnessVars>>

\* the row has a case number: its iteration starts
StartRow ==
    /\ pc = "row" /\ buffer # <<>>
    /\ Truthy(CleanCaseNumber(Head(buffer).case))
    /\ buffer' = Tail(buffer)
    /\ listed' = Append(listed, Head(buffer))
    /\ cur' = [row |-> Head(buffer).row, case |-> CleanCaseNumber(Head(buffer).case)]
    /\ pc' = "get"
    /\ UNCHANGED <<cause, hasNext, pagesFetched, nextId, updated, skipped, failed, clock,
                   requests, patches, files, counted, harnessVars>>

\* the request process_cases sends: http.get(full_url, timeout=60)
DocketRequest(error, resp) ==
    [row |-> cur.row, case |-> cur.case, verify |-> TRUE, at |-> clock,
     error |-> error, resp |-> resp]

\* http.get raises a RequestException: failed += 1, then the sleep
GetRaises ==
    /\ pc = "get"
    /\ \E e \in TransportErrors : requests' = Append(requests, DocketRequest(e, NoResponse))
    /\ failed' = failed + 1
    /\ counted' = Append(counted, "failed")
    /\ pc' = "sleep"
    /\ UNCHANGED <<cause, buffer, hasNext, pagesFetched, nextId, cur, updated, skipped, clock,
                   patches, files, listed, harnessVars>>

\* response.status_code != 200, with the comparison relaxed to server errors only
IsNot200OnlyServerErrors(status) == status >= 500

\* response.status_code != 200
IsNot200(status) == status # HTTP_OK

\* the status is not 200: skipped += 1; continue
GetNon200 ==
    /\ pc = "get"
    /\ \E resp \in Responses :
         /\ IsNot200(resp.status)
         /\ requests' = Append(requests, DocketRequest("", resp))
    /\ skipped' = skipped + 1
    /\ counted' = Append(counted, "skipped")
    /\ pc' = "row"
    /\ UNCHANGED <<cause, buffer, hasNext, pagesFetched, nextId, cur, updated, failed, clock,
                   patches, files, listed, harnessVars>>

\* f"error_page_{case_number}.html"
ErrorPageName(case_number) ==
    <<"e","r","r","o","r","_","p","a","g","e","_">> \o case_number \o <<".","h","t","m","l">>

\* open(name, "w") in the working directory: a name with a path separator
\* names a directory the program never creates
OpenRaises(name) == \E i \in DOMAIN name : name[i] = "/"

\* 200 and a denylisted phrase: write the body to the file, skipped += 1; continue
GetSoftFailure ==
    /\ pc = "get"
    /\ \E resp \in Responses :
         /\ ~IsNot200(resp.status)
         /\ HasErrorMessage[resp.text]
         /\ requests' = Append(requests, DocketRequest("", resp))
         /\ IF OpenRaises(ErrorPageName(cur.case))
            THEN /\ pc' = "aborted"
                 /\ cause' = "FileNotFoundError in open"
                 /\ UNCHANGED <<files, skipped, counted>>
            ELSE /\ files' = Append(files, [row |-> cur.row,
                                             name |-> ErrorPageName(cur.case),
                                             body |-> resp.text])
                 /\ skipped' = skipped + 1
                 /\ counted' = Append(counted, "skipped")
                 /\ pc' = "row"
                 /\ UNCHANGED cause
    /\ UNCHANGED <<buffer, hasNext, pagesFetched, nextId, cur, updated, failed, clock,
                   patches, listed, harnessVars>>

\* both keys written whatever the values
FieldsAlways(charge_text, today_event) ==
    [k \in {"Crime", "Case Number Links"} |->
        IF k = "Crime" THEN charge_text ELSE today_event]

\* fields_to_update
FieldsToUpdate(charge_text, today_event) ==
    [k \in {k \in {"Crime", "Case Number Links"} :
                Truthy(IF k = "Crime" THEN charge_text ELSE today_event)} |->
        IF k = "Crime" THEN charge_text ELSE today_event]

\* charge, today_event and fields_to_update of every body, evaluated once
Extracted ==
    [text \in Bodies |->
        LET soup == BeautifulSoup(text)
        IN FieldsToUpdate(extract_charge_with_priority(soup.charges),
                          extract_today_event(soup.calendar))]

\* update_row called for both the old and the new mapping
UpdateRowTwice(row_id, fields, outcome) ==
    IF DOMAIN fields = {} THEN <<>>
    ELSE << [row |-> row_id, fields |-> fields, ok |-> outcome = "ok"],
            [row |-> row_id, fields |-> fields, ok |-> outcome = "ok"] >>

\* update_row: the PATCH requests it sends
update_row(row_id, fields, outcome) ==
    IF DOMAIN fields = {} THEN <<>>
    ELSE << [row |-> row_id, fields |-> fields, ok |-> outcome = "ok"] >>

\* updated += 1 placed before update_row
CounterBeforePatch(outcome) == "updated"

\* update_row returns: updated += 1; it raises: failed += 1
CounterAfterPatch(outcome) == IF outcome = "ok" THEN "updated" ELSE "failed"

\* 200 and a clean page: extract, update the row if a field was found, then the sleep
GetOk ==
    /\ pc = "get"
    /\ \E resp \in Responses, outcome \in PatchOutcomes :
         /\ ~IsNot200(resp.status)
         /\ ~HasErrorMessage[resp.text]
         /\ requests' = Append(requests, DocketRequest("", resp))
         /\ LET fields_to_update == Extracted[resp.text]
                counter == IF DOMAIN fields_to_update # {}
                           THEN CounterAfterPatch(outcome) ELSE "skipped"
            IN /\ DOMAIN fields_to_update = {} => outcome = "ok"
               /\ patches' = patches \o update_row(cur.row, fields_to_update, outcome)
               /\ updated' = updated + (IF counter = "updated" THEN 1 ELSE 0)
               /\ skipped' = skipped + (IF counter = "skipped" THEN 1 ELSE 0)
               /\ failed' = failed + (IF counter = "failed" THEN 1 ELSE 0)
               /\ counted' = Append(counted, counter)
    /\ pc' = "sleep"
    /\ UNCHANGED <<cause, buffer, hasNext, pagesFetched, nextId, cur, clock, files, listed,
                   harnessVars>>

\* time.sleep(4) at the end of the loop body
Sleep ==
    /\ pc = "sleep"
    /\ clock' = clock + SLEEP_SECONDS
    /\ pc' = "row"
    /\ UNCHANGED <<cause, buffer, hasNext, pagesFetched, nextId, cur, updated, skipped, failed,
                   requests, patches, files, listed, counted, harnessVars>>

\* the generator is exhausted: the summary is printed
Finish ==
    /\ pc = "row" /\ buffer = <<>> /\ ~hasNext
    /\ pc' = "done"
    /\ UNCHANGED <<cause, buffer, hasNext, pagesFetched, nextId, cur, updated, skipped, failed,
                   clock, requests, patches, files, listed, counted, harnessVars>>

Next ==
    \/ ListPage
    \/ ListPageFails
    \/ NextPage
    \/ SkipRowWithoutCase
    \/ StartRow
    \/ GetRaises
    \/ GetNon200
    \/ GetSoftFailure
    \/ GetOk
    \/ Sleep
    \/ Finish

Spec == Init /\ [][Next]_vars

-----------------------------------------------------------------------------
(* Properties of a run *)

\* per body: whether its lower-cased page text contains a denylisted phrase
Denylisted ==
    [text \in Bodies |->
        \E k \in DOMAIN known_fail_phrases :
            Contains(Lower(JoinStripped(TextNodes(BeautifulSoup(text)))), known_fail_phrases[k])]

\* per body: the charge and the today-event the extractors derive from it
Derived ==
    [text \in Bodies |->
        [charge |-> extract_charge_with_priority(BeautifulSoup(text).charges),
         event  |-> extract_today_event(BeautifulSoup(text).calendar)]]

\* the row's iteration got a 200 answer without a denylisted phrase
ReachedExtraction(rq) ==
    rq.error = "" /\ rq.resp.status = 200 /\ ~Denylisted[rq.resp.text]

\* the row's iteration got a 200 answer with a denylisted phrase
SoftFailure(rq) ==
    rq.error = "" /\ rq.resp.status = 200 /\ Denylisted[rq.resp.text]

ChargeOf(rq) == Derived[rq.resp.text].charge

EventOf(rq) == Derived[rq.resp.text].event

PatchesOf(row) == {j \in DOMAIN patches : patches[j].row = row}

FilesOf(row) == {j \in DOMAIN files : files[j].row = row}

RequestsOf(row) == {i \in DOMAIN requests : requests[i].row = row}

HasCaseNumber(r) == listed[r].case # None /\ Strip(listed[r].case) # <<>>

\* C1: a PATCH is sent for a row if and only if its docket page was read and
\* the extracted charge or the extracted today-event is non-empty, and the
\* payload has a key exactly for each non-empty extracted value.
C1_UpdateIffFieldExtracted ==
    /\ \A i \in DOMAIN requests :
         ReachedExtraction(requests[i]) =>
            LET c == ChargeOf(requests[i])
                e == EventOf(requests[i])
            IN /\ (PatchesOf(requests[i].row) # {}) <=> (Truthy(c) \/ Truthy(e))
               /\ \A j \in PatchesOf(requests[i].row) :
                    /\ DOMAIN patches[j].fields \subseteq {"Crime", "Case Number Links"}
                    /\ ("Crime" \in DOMAIN patches[j].fields) <=> Truthy(c)
                    /\ ("Case Number Links" \in DOMAIN patches[j].fields) <=> Truthy(e)
                    /\ Truthy(c) => patches[j].fields["Crime"] = c
                    /\ Truthy(e) => patches[j].fields["Case Number Links"] = e
    /\ \A j \in DOMAIN patches :
         \E i \in RequestsOf(patches[j].row) : ReachedExtraction(requests[i])

\* C1 witness: one row updated with the event only, another read and left alone
C1_Witness ==
    /\ pc = "done"
    /\ \E i \in DOMAIN requests :
         /\ ReachedExtraction(requests[i])
         /\ ~Truthy(ChargeOf(requests[i])) /\ Truthy(EventOf(requests[i]))
         /\ \E j \in PatchesOf(requests[i].row) :
              DOMAIN patches[j].fields = {"Case Number Links"}
    /\ \E i \in DOMAIN requests :
         /\ ReachedExtraction(requests[i])
         /\ ~Truthy(ChargeOf(requests[i])) /\ ~Truthy(EventOf(requests[i]))
         /\ PatchesOf(requests[i].row) = {}

\* C2: at most one PATCH per listed row in a run, and every value written is a
\* non-empty string.
C2_OnePatchPerRowNonEmptyValues ==
    /\ \A r \in DOMAIN listed : Cardinality(PatchesOf(listed[r].row)) <= 1
    /\ \A j \in DOMAIN patches :
         /\ \E r \in DOMAIN listed : listed[r].row = patches[j].row
         /\ \A k \in DOMAIN patches[j].fields :
              patches[j].fields[k] # None /\ Len(patches[j].fields[k]) > 0

\* C2 witness: two rows patched, one of them with the charge alone
C2_Witness ==
    /\ pc = "done"
    /\ Len(patches) = 2
    /\ patches[1].row # patches[2].row
    /\ \E j \in DOMAIN patches : DOMAIN patches[j].fields = {"Crime"}

\* C3: no failure local to a row ends the run; only the row listing may.
C3_NoRowFailureAborts == pc = "aborted" => cause = "RequestException in list_rows"

\* C4: once the iteration of a row whose docket GET failed with a TLS error
\* is over, that GET was followed by exactly one retry for the same row, sent
\* with certificate verification disabled.
C4_TlsRetriedOnceUnverified ==
    \A i \in DOMAIN requests :
        (/\ requests[i].error = "SSLError"
         /\ requests[i].verify
         /\ requests[i].row \in DOMAIN counted) =>
            /\ i + 1 \in DOMAIN requests
            /\ requests[i + 1].row = requests[i].row
            /\ ~requests[i + 1].verify
            /\ Cardinality(RequestsOf(requests[i].row)) = 2

\* C5: consecutive docket requests are at least the fixed delay apart.
C5_DelayBetweenRequests ==
    \A i \in DOMAIN requests :
        i > 1 => requests[i].at - requests[i - 1].at >= SLEEP_SECONDS

\* C6: a 200 answer with a denylisted phrase counts the row as skipped, writes
\* the body to error_page_<case_number>.html and sends no PATCH for the row.
C6_SoftFailureSkippedAndSaved ==
    \A i \in DOMAIN requests :
        SoftFailure(requests[i]) =>
            LET row == requests[i].row
            IN /\ row \in DOMAIN counted /\ counted[row] = "skipped"
               /\ \E f \in FilesOf(row) :
                    /\ files[f].name = <<"e","r","r","o","r","_","p","a","g","e","_">>
                                       \o requests[i].case \o <<".","h","t","m","l">>
                    /\ files[f].body = requests[i].resp.text
               /\ PatchesOf(row) = {}

\* C7: a non-200 answer counts the row as skipped, with no PATCH, no file and
\* no second request for the row.
C7_Non200Skipped ==
    \A i \in DOMAIN requests :
        (requests[i].error = "" /\ requests[i].resp.status # 200) =>
            LET row == requests[i].row
            IN /\ row \in DOMAIN counted /\ counted[row] = "skipped"
               /\ PatchesOf(row) = {}
               /\ FilesOf(row) = {}
               /\ RequestsOf(row) = {i}

\* C7 witness: a row answered 503 and a row answered 404, run finished
C7_Witness ==
    /\ pc = "done"
    /\ skipped = 2
    /\ \E i \in DOMAIN requests : requests[i].error = "" /\ requests[i].resp.status = 503
    /\ \E i \in DOMAIN requests : requests[i].error = "" /\ requests[i].resp.status = 404

-----------------------------------------------------------------------------
(* Properties of extract_charge_with_priority *)

\* the positions <<row, div>> of the divs whose text contains "Description"
\* and that have a following div in their row
CandidatePositions(rows) ==
    {p \in UNION {{<<r, i>> : i \in 1..(Len(rows[r]) - 1)} : r \in DOMAIN rows} :
        Contains(Strip(rows[p[1]][p[2]]), Description)}

\* the candidate: the text of the div after the marker
CandidateAt(rows, p) == Strip(rows[p[1]][p[2] + 1])

\* document order
Before(p, q) == p[1] < q[1] \/ (p[1] = q[1] /\ p[2] < q[2])

MurderPositions(rows) ==
    {p \in CandidatePositions(rows) : Contains(Upper(CandidateAt(rows, p)), MURDER)}

NonEmptyPositions(rows) ==
    {p \in CandidatePositions(rows) : CandidateAt(rows, p) # <<>>}

First(positions) == CHOOSE p \in positions : \A q \in positions : q = p \/ Before(p, q)

\* C8: with a candidate that upper-cases to contain MURDER, a MURDER
\* candidate is returned, wherever it stands among the candidates.
C8_MurderHasPriority ==
    (stage = "extracted" /\ doc # NoSection /\ MurderPositions(RowsOf(doc)) # {}) =>
        \E p \in MurderPositions(RowsOf(doc)) : charge = CandidateAt(RowsOf(doc), p)

\* C8 witness: the MURDER candidate returned stands after another charge
C8_Witness ==
    /\ stage = "extracted" /\ doc # NoSection
    /\ \E p \in MurderPositions(RowsOf(doc)) :
         /\ charge = CandidateAt(RowsOf(doc), p)
         /\ \E q \in NonEmptyPositions(RowsOf(doc)) :
              Before(q, p) /\ q \notin MurderPositions(RowsOf(doc))

\* C9 as stated: without a MURDER candidate the first candidate in document
\* order is returned, also when it is empty; without candidate or container,
\* no value.
C9_FirstCandidateEvenIfEmpty ==
    (stage = "extracted" /\ (doc = NoSection \/ MurderPositions(RowsOf(doc)) = {})) =>
        IF doc = NoSection \/ CandidatePositions(RowsOf(doc)) = {}
        THEN charge = None
        ELSE charge = CandidateAt(RowsOf(doc), First(CandidatePositions(RowsOf(doc))))

\* C9 amended: without a MURDER candidate the first candidate with non-empty
\* text is returned; the empty string when every candidate is empty; no
\* value without candidate or container.
C9_FirstNonEmptyCandidate ==
    (stage = "extracted" /\ (doc = NoSection \/ MurderPositions(RowsOf(doc)) = {})) =>
        IF doc = NoSection \/ CandidatePositions(RowsOf(doc)) = {}
        THEN charge = None
        ELSE IF NonEmptyPositions(RowsOf(doc)) = {}
        THEN charge = <<>>
        ELSE charge = CandidateAt(RowsOf(doc), First(NonEmptyPositions(RowsOf(doc))))

\* C9 witness: the first candidate is empty and a later one is returned
C9_Witness ==
    /\ stage = "extracted" /\ doc # NoSection
    /\ MurderPositions(RowsOf(doc)) = {}
    /\ NonEmptyPositions(RowsOf(doc)) # {}
    /\ First(CandidatePositions(RowsOf(doc))) \notin NonEmptyPositions(RowsOf(doc))
    /\ charge = CandidateAt(RowsOf(doc), First(NonEmptyPositions(RowsOf(doc))))

====
